---- MODULE Spec2Model ----
(***************************************************************************)
(* Model of @sakuraapi/auth-audience.                                      *)
(*                                                                         *)
(*   - AuthAudience.authenticate (src/src/audience-handler.ts:143-158):    *)
(*     the authenticator chain, checked under ChainSpec.                   *)
(*   - addAuthAudience / jwtAudienceHandler / verifyJwt                    *)
(*     (src/src/audience-handler.ts:161-336): the chain-mode JWT handler,  *)
(*     checked under Spec.                                                 *)
(*   - the middleware ("legacy") addAuthAudience / jwtAudienceHandler /    *)
(*     isExcludedRoute / sendUnauthorized                                  *)
(*     (src/src/audience-handler.spec.ts:297-481): isExcludedRoute is      *)
(*     checked under ExclusionSpec, the middleware under LegacySpec.       *)
(***************************************************************************)
EXTENDS Integers, Sequences, FiniteSets, TLC

VARIABLES
    \* ---- AuthAudience (the authenticator chain) ----
    authenticators,   \* this.authenticators: what each handler resolves to
    chainPc,          \* "idle" | "await" | "returned"
    idx,              \* position of the handler being awaited (0: none)
    firstFailure,     \* let firstFailure
    started,          \* positions of the handlers invoked so far
    completed,        \* positions of the handlers whose promise has resolved
    chainResult,      \* value authenticate() resolved to
    \* ---- addAuthAudience / jwtAudienceHandler ----
    options,          \* the options object closed over by jwtAudienceHandler
    pc,               \* position of the handler (which await it is parked on)
    authHeader,       \* req.get(options.authHeader)
    token,            \* let token
    err,              \* the Error of the failure being reported
    verifyCall,       \* arguments of the verify() call of this request
    payload,          \* payload verify() called back with
    onAuthorizedCalled, \* options.onAuthorized was invoked for this request
    resLocalsJwt,     \* res.locals.jwt
    settlements,      \* how the awaited hooks / builders settled, in order
    result,           \* what the handler's promise settled to
    \* ---- middleware addAuthAudience / jwtAudienceHandler(req, res, next) ----
    legacyOptions,    \* the options object closed over by the middleware
    sapiBaseUrl,      \* sapi.baseUrl
    baseUrlOffset,    \* const baseUrlOffset
    req,              \* req.originalUrl, req.method and the credential header
    reqAuth,          \* const reqAuth = !isExcludedRoute(...)
    legacyPc,         \* position of the middleware (the promise it waits on)
    legacyToken,      \* let token
    legacyVerifyCall, \* arguments of the verify() call of this request
    legacyPayload,    \* payload options.onAuthorized was called with
    legacyOnAuthorizedCalled, \* options.onAuthorized was invoked
    legacyLocalsJwt,  \* res.locals.jwt
    legacySettlements, \* how the hooks / builders waited on settled, in order
    resSent,          \* res.status(s).json(j) calls, in order
    nextCalls         \* next(...) calls, in order (the argument of each)

chainVars == <<authenticators, chainPc, idx, firstFailure, started, completed,
               chainResult>>

handlerVars == <<options, pc, authHeader, token, err, verifyCall, payload,
                 onAuthorizedCalled, resLocalsJwt, settlements, result>>

legacyVars == <<legacyOptions, sapiBaseUrl, baseUrlOffset, req, reqAuth,
                legacyPc,
                legacyToken, legacyVerifyCall, legacyPayload,
                legacyOnAuthorizedCalled, legacyLocalsJwt, legacySettlements,
                resSent, nextCalls>>

vars == <<authenticators, chainPc, idx, firstFailure, started, completed,
          chainResult, options, pc, authHeader, token, err, verifyCall,
          payload, onAuthorizedCalled, resLocalsJwt, settlements, result,
          legacyOptions, sapiBaseUrl, baseUrlOffset, req, reqAuth, legacyPc,
          legacyToken, legacyVerifyCall, legacyPayload,
          legacyOnAuthorizedCalled, legacyLocalsJwt, legacySettlements,
          resSent, nextCalls>>

-----------------------------------------------------------------------------
(* Bounds *)

\* longest list of authentication handlers given to the AuthAudience
MaxAuthenticators == 3

\* longest credential header, counted in chunks (see Chunks)
MaxHeaderLen == 3

\* most signed tokens occurring in one credential header
MaxJwtsPerHeader == 1

-----------------------------------------------------------------------------
(* AuthAudience.authenticate                                               *)

\* What a handler can resolve to: a success, a failure (two different error
\* kinds), or nothing at all (a falsy value).
HandlerBehaviours == {"success", "failK1", "failK2", "falsy"}

\* The AuthenticatorPluginResult the handler at position i resolves to.  `by`
\* is the identity of the result object (which handler produced it).
HandlerResult(i, behaviour) ==
    [ falsy   |-> behaviour = "falsy",
      success |-> behaviour = "success",
      error   |-> CASE behaviour = "failK1" -> "K1"
                    [] behaviour = "failK2" -> "K2"
                    [] OTHER -> "none",
      status  |-> CASE behaviour = "success" -> 200
                    [] behaviour = "failK1" -> 401
                    [] behaviour = "failK2" -> 400
                    [] OTHER -> 0,
      by      |-> IF behaviour = "falsy" THEN 0 ELSE i ]

\* `undefined` as an AuthenticatorPluginResult (let firstFailure; with no
\* initialiser, and the value of a handler that resolves to nothing)
UndefinedResult == HandlerResult(0, "falsy")

AuthenticatorLists ==
    UNION { [1..n -> HandlerBehaviours] : n \in 0..MaxAuthenticators }

\* auth(req, res): the handler at position i is invoked
InvokeHandler(i) ==
    /\ idx' = i
    /\ started' = started \cup {i}
    /\ chainPc' = "await"

\* return x
ChainReturn(x) ==
    /\ chainResult' = x
    /\ chainPc' = "returned"
    /\ idx' = 0
    /\ started' = started

\* authenticate(req, res) is called: the loop is entered and the first
\* handler is invoked; with no handlers the loop is skipped and firstFailure
\* (undefined) is returned.
Authenticate ==
    /\ chainPc = "idle"
    /\ firstFailure' = UndefinedResult
    /\ completed' = {}
    /\ IF Len(authenticators) = 0
          THEN ChainReturn(UndefinedResult)
          ELSE /\ InvokeHandler(1)
               /\ chainResult' = chainResult
    /\ UNCHANGED <<authenticators>>
    /\ UNCHANGED handlerVars
    /\ UNCHANGED legacyVars

\* RecordsFailure without the `!authAttempt.success` test: a success is
\* remembered like a failure and the loop goes on.
RecordsFailureIgnoringSuccess(authAttempt, ff) ==
    /\ ~authAttempt.falsy
    /\ ff.falsy

\* The condition of the loop body, evaluated after `await auth(req, res)`:
\* authAttempt && !authAttempt.success && !firstFailure
RecordsFailure(authAttempt, ff) ==
    /\ ~authAttempt.falsy
    /\ ~authAttempt.success
    /\ ff.falsy

\* The awaited handler resolves: the body of the for loop runs with its
\* result, and either the next handler is invoked or authenticate returns.
HandlerResolves ==
    /\ chainPc = "await"
    /\ LET authAttempt == HandlerResult(idx, authenticators[idx])
       IN  /\ completed' = completed \cup {idx}
           /\ IF RecordsFailure(authAttempt, firstFailure)
                 THEN /\ firstFailure' = authAttempt
                      /\ IF idx < Len(authenticators)
                            THEN /\ InvokeHandler(idx + 1)
                                 /\ chainResult' = chainResult
                            ELSE ChainReturn(authAttempt)
                 ELSE /\ firstFailure' = firstFailure
                      /\ ChainReturn(authAttempt)
    /\ UNCHANGED <<authenticators>>
    /\ UNCHANGED handlerVars
    /\ UNCHANGED legacyVars


-----------------------------------------------------------------------------
(* Strings.  A string is a sequence of chunks; a chunk is a single space or *)
(* a run of non-space characters that the handler never looks into (a       *)
(* scheme word, or a whole compact JWT).                                    *)

SP == " "

\* the signed tokens a client can present
JwtIds == {"jwtFlat", "jwtFlatExpired", "jwtDefault", "jwtNoDomain",
           "jwtField", "jwtFieldOtherKey", "jwtUnknownDomain", "jwtForged"}

Chunks == {SP, "Bearer", "bearer", "JWT"} \cup JwtIds

\* String.prototype.toLowerCase, chunk by chunk
LowerChunk(c) ==
    CASE c = "Bearer" -> "bearer"
      [] c = "JWT"    -> "jwt"
      [] OTHER        -> c

ToLowerCase(s) == [i \in DOMAIN s |-> LowerChunk(s[i])]

\* position of the first space of s, 0 when there is none
RECURSIVE FirstSpaceFrom(_, _)
FirstSpaceFrom(s, i) ==
    IF i > Len(s) THEN 0
    ELSE IF s[i] = SP THEN i
    ELSE FirstSpaceFrom(s, i + 1)

\* split(' ', 2)-like: cut at the first space only
SplitAtFirstSpace(s) ==
    LET i == FirstSpaceFrom(s, 1)
    IN  IF i = 0
           THEN <<s>>
           ELSE <<SubSeq(s, 1, i - 1), SubSeq(s, i + 1, Len(s))>>

\* String.prototype.split(' ')
RECURSIVE Split(_)
Split(s) ==
    LET i == FirstSpaceFrom(s, 1)
    IN  IF i = 0
           THEN <<s>>
           ELSE <<SubSeq(s, 1, i - 1)>> \o Split(SubSeq(s, i + 1, Len(s)))

-----------------------------------------------------------------------------
(* jsonwebtoken: sign / decode / verify                                     *)

\* sign(claims, key): the claims and the signing key of each token.
\* domain "" is a token without a domain claim.
JwtSigned(t) ==
    CASE t = "jwtFlat" ->
           [aud |-> "testAudience", iss |-> "testIssuer", domain |-> "",
            expired |-> FALSE, key |-> "1234"]
      [] t = "jwtFlatExpired" ->
           [aud |-> "testAudience", iss |-> "testIssuer", domain |-> "",
            expired |-> TRUE, key |-> "1234"]
      [] t = "jwtDefault" ->
           [aud |-> "audience2", iss |-> "issuer2", domain |-> "default",
            expired |-> FALSE, key |-> "456"]
      [] t = "jwtNoDomain" ->
           [aud |-> "audience2", iss |-> "issuer2", domain |-> "",
            expired |-> FALSE, key |-> "456"]
      [] t = "jwtField" ->
           [aud |-> "audience1", iss |-> "issuer1", domain |-> "field",
            expired |-> FALSE, key |-> "123"]
      [] t = "jwtFieldOtherKey" ->
           [aud |-> "audience1", iss |-> "issuer1", domain |-> "field",
            expired |-> FALSE, key |-> "456"]
      [] t = "jwtUnknownDomain" ->
           [aud |-> "testAudience", iss |-> "testIssuer", domain |-> "other",
            expired |-> FALSE, key |-> "1234"]
      [] t = "jwtForged" ->
           [aud |-> "audience1", iss |-> "issuer1", domain |-> "field",
            expired |-> FALSE, key |-> ""]

\* the claims object of a token (what decode and verify hand back)
JwtClaims(t) ==
    [aud     |-> JwtSigned(t).aud,
     iss     |-> JwtSigned(t).iss,
     domain  |-> JwtSigned(t).domain,
     expired |-> JwtSigned(t).expired]

NoPayload == [aud |-> "", iss |-> "", domain |-> "", expired |-> FALSE]

IsJwt(tok) == Len(tok) = 1 /\ tok[1] \in JwtIds

\* decode(token, {json: true}): the claims, unverified; null when the string
\* is not a JWT
Decode(tok) ==
    IF IsJwt(tok)
       THEN [null |-> FALSE, claims |-> JwtClaims(tok[1])]
       ELSE [null |-> TRUE,  claims |-> NoPayload]

\* verify(token, key, jwtVerifyOptions, callback): the error or the payload
\* the callback receives.  An undefined audience / issuer ("") is not checked.
Verify(tok, key, jwtVerifyOptions) ==
    LET fail(e) == [ok |-> FALSE, error |-> e, payload |-> NoPayload]
    IN  IF ~IsJwt(tok) THEN fail("jwt malformed")
        ELSE IF key = "" THEN fail("secret or public key must be provided")
        ELSE IF JwtSigned(tok[1]).key # key THEN fail("invalid signature")
        ELSE IF JwtSigned(tok[1]).expired THEN fail("jwt expired")
        ELSE IF /\ jwtVerifyOptions.audience # ""
                /\ JwtSigned(tok[1]).aud # jwtVerifyOptions.audience
                THEN fail("jwt audience invalid")
        ELSE IF /\ jwtVerifyOptions.issuer # ""
                /\ JwtSigned(tok[1]).iss # jwtVerifyOptions.issuer
                THEN fail("jwt issuer invalid")
        ELSE [ok |-> TRUE, error |-> "none", payload |-> JwtClaims(tok[1])]

-----------------------------------------------------------------------------
(* addAuthAudience: resolution of the options                               *)

DefaultServerErrorStatusCode == 500
DefaultUnauthorizedStatusCode == 401
DefaultBadRequestStatusCode == 400
SuccessStatus == 200

\* a || b on strings ("" is undefined / falsy)
OrStr(a, b) == IF a # "" THEN a ELSE b

\* a || b on numbers (0 is undefined / falsy)
OrNum(a, b) == IF a # 0 THEN a ELSE b

\* audience / issuer / key as given in the options or in
\* sapi.config.authentication.jwt: all absent, or all given
FlatConfigs ==
    { [audience |-> "", issuer |-> "", key |-> ""],
      [audience |-> "testAudience", issuer |-> "testIssuer", key |-> "1234"] }

\* options.domainedAudiences as in the README and the tests
DomainTable ==
    [ default |-> [audience |-> "audience2", issuer |-> "issuer2",
                   key |-> "456"],
      field   |-> [audience |-> "audience1", issuer |-> "issuer1",
                   key |-> "123"] ]

NoDomainTable == [d \in {} |-> [audience |-> "", issuer |-> "", key |-> ""]]

\* domainedAudiences given in the options: undefined, or the table
DomainedAudiences ==
    { [defined |-> FALSE, table |-> NoDomainTable],
      [defined |-> TRUE,  table |-> DomainTable] }

\* status codes given in the options (0: not given)
StatusProfiles ==
    { [unauthorized |-> 0,   badRequest |-> 0,   serverError |-> 0],
      [unauthorized |-> 403, badRequest |-> 422, serverError |-> 503] }

\* authScheme given in the options: undefined, '' or a word
AuthSchemes ==
    { [defined |-> FALSE, value |-> <<>>],
      [defined |-> TRUE,  value |-> <<>>],
      [defined |-> TRUE,  value |-> <<"Bearer">>] }

\* The IAuthAudienceOptions a caller passes.  A hook or body builder is either
\* left out (FALSE) or supplied by the caller (TRUE).
RawOptions ==
    { [ audience |-> f.audience, issuer |-> f.issuer, key |-> f.key,
        authScheme |-> sch,
        domainedAudiences |-> dom,
        unauthorizedStatusCode |-> st.unauthorized,
        badRequestStatusCode |-> st.badRequest,
        serverErrorStatusCode |-> st.serverError,
        onAuthorized |-> oa,
        onVerifyError |-> ove,
        jsonBuilders |-> jb ] :
        f \in FlatConfigs, sch \in AuthSchemes, dom \in DomainedAudiences,
        st \in StatusProfiles, oa \in BOOLEAN, ove \in BOOLEAN,
        jb \in BOOLEAN }

\* sapi.config.authentication.jwt
SapiConfigs == FlatConfigs

\* The options object at the end of addAuthAudience.  (options.authHeader,
\* the name of the credential header, is not represented: a request either
\* carries the configured header or does not, see AuthHeaders.)
AddAuthAudience(sapi, opt) ==
    LET audience == OrStr(opt.audience, sapi.audience)
        issuer   == OrStr(opt.issuer, sapi.issuer)
    IN  [ audience   |-> audience,
          authScheme |-> IF opt.authScheme.defined /\ opt.authScheme.value = <<>>
                            THEN <<>>
                            ELSE IF opt.authScheme.defined
                                    THEN opt.authScheme.value
                                    ELSE <<"Bearer">>,
          issuer     |-> issuer,
          jwtVerifyOptions |-> [audience |-> audience, issuer |-> issuer],
          key        |-> OrStr(opt.key, sapi.key),
          domainedAudiences |-> opt.domainedAudiences,
          onAuthorized  |-> IF opt.onAuthorized THEN "custom" ELSE "default",
          onVerifyError |-> IF opt.onVerifyError THEN "custom" ELSE "default",
          serverErrorStatusCode  |-> OrNum(opt.serverErrorStatusCode,
                                           DefaultServerErrorStatusCode),
          serverErrorJson        |-> IF opt.jsonBuilders THEN "custom"
                                                         ELSE "default",
          unauthorizedStatusCode |-> OrNum(opt.unauthorizedStatusCode,
                                           DefaultUnauthorizedStatusCode),
          unauthorizedJson       |-> IF opt.jsonBuilders THEN "custom"
                                                         ELSE "default",
          badRequestStatusCode   |-> OrNum(opt.badRequestStatusCode,
                                           DefaultBadRequestStatusCode),
          badRequestJson         |-> IF opt.jsonBuilders THEN "custom"
                                                         ELSE "default" ]

-----------------------------------------------------------------------------
(* Requests                                                                 *)

JwtCount(h) == Cardinality({i \in DOMAIN h : h[i] \in JwtIds})

\* values of the credential header
HeaderValues ==
    { h \in UNION { [1..n -> Chunks] : n \in 0..MaxHeaderLen } :
        JwtCount(h) <= MaxJwtsPerHeader }

\* req.get(options.authHeader): undefined when the request has no such header
AuthHeaders ==
    { [present |-> FALSE, value |-> <<>>] }
        \cup { [present |-> TRUE, value |-> h] : h \in HeaderValues }

\* !authHeader written as authHeader === '': a missing header is not caught
FalsyOnlyEmptyString(h) == h.present /\ h.value = <<>>

\* !authHeader
Falsy(h) == ~h.present \/ h.value = <<>>

\* How a promise returned by a hook or body builder settles.  The default
\* ones resolve (to null / undefined); one supplied by the caller resolves to
\* a body or rejects.
Settlements(hook) ==
    IF hook = "default"
       THEN { [rejected |-> FALSE, data |-> "null"] }
       ELSE { [rejected |-> FALSE, data |-> "json"],
              [rejected |-> FALSE, data |-> "null"],
              [rejected |-> TRUE,  data |-> "null"] }

Unsettled ==
    [settled |-> FALSE, rejected |-> FALSE, success |-> FALSE, status |-> 0,
     error |-> "none", data |-> "null"]

\* the promise of jwtAudienceHandler resolves to a failure
Failure(data, error, status) ==
    [settled |-> TRUE, rejected |-> FALSE, success |-> FALSE,
     status |-> status, error |-> error, data |-> data]

\* the promise of jwtAudienceHandler resolves to a success
Success(data) ==
    [settled |-> TRUE, rejected |-> FALSE, success |-> TRUE,
     status |-> SuccessStatus, error |-> "none", data |-> data]

\* the promise of jwtAudienceHandler rejects
Rejected(error) ==
    [settled |-> TRUE, rejected |-> TRUE, success |-> FALSE, status |-> 0,
     error |-> error, data |-> "null"]

\* FailureStatus answering header problems with the unauthorized status
FailureStatusAllUnauthorized(branch, opts) ==
    CASE branch = "noHeader"    -> opts.unauthorizedStatusCode
      [] branch = "badRequest"  -> opts.unauthorizedStatusCode
      [] branch = "firstCatch"  -> opts.serverErrorStatusCode
      [] branch = "secondCatch" -> opts.unauthorizedStatusCode

\* status: of the result returned by each return statement of the handler
FailureStatus(branch, opts) ==
    CASE branch = "noHeader"    -> opts.unauthorizedStatusCode
      [] branch = "badRequest"  -> opts.badRequestStatusCode
      [] branch = "firstCatch"  -> opts.serverErrorStatusCode
      [] branch = "secondCatch" -> opts.unauthorizedStatusCode

\* OnAuthorizedStores with a default hook that forgets the payload
OnAuthorizedStoresNothing(hook, p, locals) == locals

\* res.locals.jwt once options.onAuthorized(payload, req, res) has been
\* called: the default hook stores the payload there, a hook supplied by the
\* caller keeps it wherever it likes.
OnAuthorizedStores(hook, p, locals) ==
    IF hook = "default" THEN p ELSE locals

NoVerifyCall ==
    [called |-> FALSE, token |-> <<>>, key |-> "", audience |-> "",
     issuer |-> ""]

-----------------------------------------------------------------------------
(* jwtAudienceHandler                                                       *)

\* The first try block up to its first await: the header is classified and
\* the token extracted.
ParseHeader(h, authScheme) ==
    LET authHeaderParts == IF Falsy(h) THEN <<>> ELSE Split(h.value)
        bad(e) == [kind |-> "badRequest", error |-> e, token |-> <<>>]
    IN  IF Falsy(h)
           THEN [kind |-> "noHeader", error |-> "NO_AUTHORIZATION_HEADER",
                 token |-> <<>>]
        ELSE IF authScheme = <<>> \/ Len(authHeaderParts) = 1
           THEN IF h.value = authScheme
                   THEN bad("NO_AUTH_TOKEN")
                   ELSE [kind |-> "token", error |-> "none",
                         token |-> h.value]
        ELSE IF Len(authHeaderParts) = 2
           THEN IF ToLowerCase(authHeaderParts[1]) # ToLowerCase(authScheme)
                   THEN bad("UNEXPECTED_AUTH_SCHEME")
                   ELSE [kind |-> "token", error |-> "none",
                         token |-> authHeaderParts[2]]
        ELSE bad("UNEXPECTED_AUTH_HEADER_CONTENT")

\* DomainOrDefault without the fallback: the claim is used as it is
DomainAsClaimed(claimed) == claimed

\* let domain = decodedToken['domain']; if (!domain) { domain = 'default'; }
\* ("" is a token without a domain claim)
DomainOrDefault(claimed) == IF claimed = "" THEN "default" ELSE claimed

\* The second try block up to the call of verifyJwt: the key and the
\* jwtVerifyOptions the token is verified with.  jwtVerifyOptions is the
\* object held by options (no copy is made), so the assignments of the domain
\* branch are assignments to options.jwtVerifyOptions.  decode() gives null
\* for a string that is not a JWT, and reading ['domain'] of null throws.
ResolveDomain(opts, tok) ==
    LET decodedToken == Decode(tok)
        claimed == decodedToken.claims.domain
        domain  == DomainOrDefault(claimed)
        table   == opts.domainedAudiences.table
    IN  IF ~opts.domainedAudiences.defined
           THEN [threw |-> FALSE, key |-> opts.key,
                 jwtVerifyOptions |-> opts.jwtVerifyOptions]
        ELSE IF decodedToken.null
           THEN [threw |-> TRUE, key |-> opts.key,
                 jwtVerifyOptions |-> opts.jwtVerifyOptions]
        ELSE IF domain \in DOMAIN table
           THEN [threw |-> FALSE, key |-> table[domain].key,
                 jwtVerifyOptions |->
                     [opts.jwtVerifyOptions EXCEPT
                         !.audience = table[domain].audience,
                         !.issuer = table[domain].issuer]]
        ELSE [threw |-> FALSE, key |-> opts.key,
              jwtVerifyOptions |-> opts.jwtVerifyOptions]

\* VerifyJwtRejects resolving with the (undefined) payload after an error
VerifyJwtNeverRejects(v) == FALSE

\* verifyJwt: (err) ? reject(err) : resolve(payload)
VerifyJwtRejects(v) == ~v.ok

\* A request arrives and jwtAudienceHandler(req, res) runs up to its first
\* await: on a hook or body builder (header problems, decode failure) or on
\* verifyJwt.
HandleRequest ==
    /\ pc = "idle"
    /\ \E h \in AuthHeaders :
        LET parsed == ParseHeader(h, options.authScheme)
            dom    == ResolveDomain(options, parsed.token)
        IN  /\ authHeader' = h
            /\ payload' = NoPayload
            /\ onAuthorizedCalled' = FALSE
            /\ resLocalsJwt' = NoPayload
            /\ settlements' = <<>>
            /\ result' = Unsettled
            /\ token' = parsed.token
            /\ CASE parsed.kind = "noHeader" ->
                      /\ err' = parsed.error
                      /\ pc' = "awaitNoHeaderHook"
                      /\ verifyCall' = NoVerifyCall
                      /\ options' = options
                 [] parsed.kind = "badRequest" ->
                      /\ err' = parsed.error
                      /\ pc' = "awaitBadRequestJson"
                      /\ verifyCall' = NoVerifyCall
                      /\ options' = options
                 [] parsed.kind = "token" /\ dom.threw ->
                      /\ err' = "TypeError"
                      /\ pc' = "awaitOnVerifyError"
                      /\ verifyCall' = NoVerifyCall
                      /\ options' = options
                 [] parsed.kind = "token" /\ ~dom.threw ->
                      /\ err' = "none"
                      /\ pc' = "awaitVerify"
                      /\ verifyCall' =
                            [called |-> TRUE, token |-> parsed.token,
                             key |-> dom.key,
                             audience |-> dom.jwtVerifyOptions.audience,
                             issuer |-> dom.jwtVerifyOptions.issuer]
                      /\ options' = [options EXCEPT
                            !.jwtVerifyOptions = dom.jwtVerifyOptions]
    /\ UNCHANGED chainVars
    /\ UNCHANGED legacyVars

\* await options.onVerifyError(err, token, req, res) of the missing-header
\* branch settles.  A rejection is caught by the first catch block, which
\* calls options.serverErrorJson.
NoHeaderHookSettles ==
    /\ pc = "awaitNoHeaderHook"
    /\ \E s \in Settlements(options.onVerifyError) :
          /\ settlements' = Append(settlements,
                [hook |-> "onVerifyError", rejected |-> s.rejected])
          /\ IF s.rejected
             THEN /\ err' = "hookError"
                  /\ pc' = "awaitServerErrorJson"
                  /\ result' = result
             ELSE /\ err' = err
                  /\ pc' = "done"
                  /\ result' = Failure(s.data, err,
                                       FailureStatus("noHeader", options))
    /\ UNCHANGED <<options, authHeader, token, verifyCall, payload,
                   onAuthorizedCalled, resLocalsJwt>>
    /\ UNCHANGED chainVars
    /\ UNCHANGED legacyVars

\* await options.badRequestJson(err, req, res) settles.  A rejection is
\* caught by the first catch block.
BadRequestJsonSettles ==
    /\ pc = "awaitBadRequestJson"
    /\ \E s \in Settlements(options.badRequestJson) :
          /\ settlements' = Append(settlements,
                [hook |-> "badRequestJson", rejected |-> s.rejected])
          /\ IF s.rejected
             THEN /\ err' = "hookError"
                  /\ pc' = "awaitServerErrorJson"
                  /\ result' = result
             ELSE /\ err' = err
                  /\ pc' = "done"
                  /\ result' = Failure(s.data, err,
                                       FailureStatus("badRequest", options))
    /\ UNCHANGED <<options, authHeader, token, verifyCall, payload,
                   onAuthorizedCalled, resLocalsJwt>>
    /\ UNCHANGED chainVars
    /\ UNCHANGED legacyVars

\* await options.serverErrorJson(err, req, res) of the first catch block
\* settles.  Nothing catches a rejection: the handler's promise rejects.
ServerErrorJsonSettles ==
    /\ pc = "awaitServerErrorJson"
    /\ \E s \in Settlements(options.serverErrorJson) :
          /\ settlements' = Append(settlements,
                [hook |-> "serverErrorJson", rejected |-> s.rejected])
          /\ pc' = "done"
          /\ result' = IF s.rejected
                          THEN Rejected("hookError")
                          ELSE Failure(s.data, err,
                                       FailureStatus("firstCatch", options))
    /\ UNCHANGED <<options, authHeader, token, err, verifyCall, payload,
                   onAuthorizedCalled, resLocalsJwt>>
    /\ UNCHANGED chainVars
    /\ UNCHANGED legacyVars

\* verify() calls back and the promise of verifyJwt settles: with a payload
\* options.onAuthorized is called (the default one stores the payload in
\* res.locals.jwt), with an error the second catch block calls
\* options.onVerifyError.
VerifySettles ==
    /\ pc = "awaitVerify"
    /\ LET v == Verify(verifyCall.token, verifyCall.key,
                       [audience |-> verifyCall.audience,
                        issuer |-> verifyCall.issuer])
       IN  IF ~VerifyJwtRejects(v)
              THEN /\ payload' = v.payload
                   /\ onAuthorizedCalled' = TRUE
                   /\ resLocalsJwt' = OnAuthorizedStores(options.onAuthorized,
                                                          v.payload,
                                                          resLocalsJwt)
                   /\ err' = err
                   /\ pc' = "awaitOnAuthorized"
              ELSE /\ err' = v.error
                   /\ pc' = "awaitOnVerifyError"
                   /\ UNCHANGED <<payload, onAuthorizedCalled, resLocalsJwt>>
    /\ UNCHANGED <<options, authHeader, token, verifyCall, settlements,
                   result>>
    /\ UNCHANGED chainVars
    /\ UNCHANGED legacyVars

\* await options.onAuthorized(payload, req, res) settles.  A rejection is
\* caught by the second catch block, which calls options.onVerifyError.
OnAuthorizedSettles ==
    /\ pc = "awaitOnAuthorized"
    /\ \E s \in Settlements(options.onAuthorized) :
          /\ settlements' = Append(settlements,
                [hook |-> "onAuthorized", rejected |-> s.rejected])
          /\ IF s.rejected
             THEN /\ err' = "hookError"
                  /\ pc' = "awaitOnVerifyError"
                  /\ result' = result
             ELSE /\ err' = err
                  /\ pc' = "done"
                  /\ result' = Success(s.data)
    /\ UNCHANGED <<options, authHeader, token, verifyCall, payload,
                   onAuthorizedCalled, resLocalsJwt>>
    /\ UNCHANGED chainVars
    /\ UNCHANGED legacyVars

\* await options.onVerifyError(err, token, req, res) of the second catch
\* block settles.  Nothing catches a rejection: the handler's promise
\* rejects.
OnVerifyErrorSettles ==
    /\ pc = "awaitOnVerifyError"
    /\ \E s \in Settlements(options.onVerifyError) :
          /\ settlements' = Append(settlements,
                [hook |-> "onVerifyError", rejected |-> s.rejected])
          /\ pc' = "done"
          /\ result' = IF s.rejected
                          THEN Rejected("hookError")
                          ELSE Failure(s.data, err,
                                       FailureStatus("secondCatch", options))
    /\ UNCHANGED <<options, authHeader, token, err, verifyCall, payload,
                   onAuthorizedCalled, resLocalsJwt>>
    /\ UNCHANGED chainVars
    /\ UNCHANGED legacyVars

HandlerIdle ==
    /\ pc = "idle"
    /\ authHeader = [present |-> FALSE, value |-> <<>>]
    /\ token = <<>>
    /\ err = "none"
    /\ verifyCall = NoVerifyCall
    /\ payload = NoPayload
    /\ onAuthorizedCalled = FALSE
    /\ resLocalsJwt = NoPayload
    /\ settlements = <<>>
    /\ result = Unsettled

\* The caller has awaited the handler's promise and answered the request
\* (status and body of a failure, next() on success); req and res are
\* dropped.  Only the options object outlives the request.
RequestEnds ==
    /\ pc = "done"
    /\ pc' = "idle"
    /\ authHeader' = [present |-> FALSE, value |-> <<>>]
    /\ token' = <<>>
    /\ err' = "none"
    /\ verifyCall' = NoVerifyCall
    /\ payload' = NoPayload
    /\ onAuthorizedCalled' = FALSE
    /\ resLocalsJwt' = NoPayload
    /\ settlements' = <<>>
    /\ result' = Unsettled
    /\ UNCHANGED options
    /\ UNCHANGED chainVars
    /\ UNCHANGED legacyVars

-----------------------------------------------------------------------------
(* The middleware: URLs, exclusion rules and isExcludedRoute.  A URL is a   *)
(* sequence of symbols: "/", "?" or a name, each with its length.           *)

\* longest req.originalUrl, counted in symbols
MaxUrlLen == 4

\* longest options.excludedRoutes list
MaxRules == 2

\* A URL is a sequence of symbols: the separators "/" and "?", and names
\* ("account" is a name as long as "testApi").
UrlSymbols == {"/", "?", "test1", "test2", "testApi", "account", "q"}

\* String.prototype.length of a symbol
SymbolLength(x) ==
    IF x \in {"/", "?", "q"} THEN 1
    ELSE IF x \in {"test1", "test2"} THEN 5
    ELSE 7

\* String.prototype.length of a URL
RECURSIVE StringLength(_)
StringLength(s) ==
    IF s = <<>> THEN 0 ELSE SymbolLength(Head(s)) + StringLength(Tail(s))

Methods == {"GET", "POST"}

\* req.originalUrl: always begins with a slash
OriginalUrls ==
    { u \in UNION { [1..n -> UrlSymbols] : n \in 1..MaxUrlLen } : u[1] = "/" }

\* A RegExp is anchored at the start: [pattern, anchoredEnd] stands for
\* /^pattern$/ (anchoredEnd) or /^pattern/.

\* RegExp.prototype.test
RegexTest(regex, path) ==
    IF regex.anchoredEnd
       THEN path = regex.pattern
       ELSE /\ Len(path) >= Len(regex.pattern)
            /\ SubSeq(path, 1, Len(regex.pattern)) = regex.pattern

\* An element of options.excludedRoutes: a bare RegExp, or an IRouteExclusion
\* {method?, regex}; method is the set of keys of the method object that map
\* to true.
ExclusionRules ==
    { [bare |-> TRUE, hasMethod |-> FALSE, method |-> {},
       regex |-> [pattern |-> <<"/">>, anchoredEnd |-> TRUE]],
      [bare |-> FALSE, hasMethod |-> FALSE, method |-> {},
       regex |-> [pattern |-> <<"/", "test1">>, anchoredEnd |-> TRUE]],
      [bare |-> FALSE, hasMethod |-> TRUE, method |-> {"POST"},
       regex |-> [pattern |-> <<"/", "test2">>, anchoredEnd |-> TRUE]],
      [bare |-> FALSE, hasMethod |-> TRUE, method |-> {"GET"},
       regex |-> [pattern |-> <<"/", "test1">>, anchoredEnd |-> FALSE]],
      [bare |-> FALSE, hasMethod |-> TRUE, method |-> {},
       regex |-> [pattern |-> <<"/">>, anchoredEnd |-> TRUE]] }

\* the list of the tests: [/^\/$/, {regex: /^\/test1$/},
\*                         {method: {POST: true}, regex: /^\/test2$/}]
TestExcludedRoutes ==
    << [bare |-> TRUE, hasMethod |-> FALSE, method |-> {},
        regex |-> [pattern |-> <<"/">>, anchoredEnd |-> TRUE]],
       [bare |-> FALSE, hasMethod |-> FALSE, method |-> {},
        regex |-> [pattern |-> <<"/", "test1">>, anchoredEnd |-> TRUE]],
       [bare |-> FALSE, hasMethod |-> TRUE, method |-> {"POST"},
        regex |-> [pattern |-> <<"/", "test2">>, anchoredEnd |-> TRUE]] >>

\* options.excludedRoutes: undefined, or a list of rules
ExcludedRoutesLists ==
    { [defined |-> FALSE, rules |-> <<>>] }
        \cup { [defined |-> TRUE, rules |-> l] :
                 l \in UNION { [1..n -> ExclusionRules] : n \in 0..MaxRules } }

\* sapi.baseUrl: not set, or /testApi
BaseUrls == { <<>>, <<"/", "testApi">> }

\* BaseUrlOffset ignoring sapi.baseUrl
BaseUrlOffsetZero(sapi) == 0

\* const baseUrlOffset = (sapi.baseUrl) ? sapi.baseUrl.length : 0
BaseUrlOffset(sapi) ==
    IF sapi.baseUrl # <<>> THEN StringLength(sapi.baseUrl) ELSE 0

\* position of the first "?" of u at or after i, 0 when there is none
RECURSIVE FirstQueryFrom(_, _)
FirstQueryFrom(u, i) ==
    IF i > Len(u) THEN 0
    ELSE IF u[i] = "?" THEN i
    ELSE FirstQueryFrom(u, i + 1)

\* BeforeQuery leaving the query in place
BeforeQueryKeepsQuery(u) == u

\* originalUrl.split('?')[0]
BeforeQuery(u) ==
    LET i == FirstQueryFrom(u, 1)
    IN  IF i = 0 THEN u ELSE SubSeq(u, 1, i - 1)

\* String.prototype.substring(n): s without its first n characters.  A cut
\* that falls inside a name leaves the end of that name, written "fragment"
\* (it begins with a letter, so that no pattern of the rules matches it).
RECURSIVE Substring(_, _)
Substring(s, n) ==
    IF n = 0 \/ s = <<>> THEN s
    ELSE IF n >= SymbolLength(Head(s))
       THEN Substring(Tail(s), n - SymbolLength(Head(s)))
    ELSE <<"fragment">> \o Tail(s)

\* RulePermits without the method test of an IRouteExclusion
RulePermitsAnyMethod(rule, method) == TRUE

\* regex instanceof RegExp, or !regex.method || regex.method[req.method]
RulePermits(rule, method) ==
    \/ rule.bare
    \/ ~rule.hasMethod
    \/ method \in rule.method

\* the for loop of isExcludedRoute, from rule i on
RECURSIVE ExcludedFrom(_, _, _, _)
ExcludedFrom(rules, i, path, method) ==
    IF i > Len(rules) THEN FALSE
    ELSE IF RulePermits(rules[i], method) /\ RegexTest(rules[i].regex, path)
       THEN TRUE
    ELSE ExcludedFrom(rules, i + 1, path, method)

\* isExcludedRoute(options, baseUrlOffset, req, res)
IsExcludedRoute(opts, offset, r) ==
    IF ~opts.excludedRoutes.defined
       THEN FALSE
       ELSE ExcludedFrom(opts.excludedRoutes.rules, 1,
                         Substring(BeforeQuery(r.originalUrl), offset),
                         r.method)

-----------------------------------------------------------------------------
(* The middleware: addAuthAudience                                          *)

\* sapi: config.authentication.jwt (empty, as in the tests) and baseUrl
LegacySapis(bases) ==
    { [audience |-> "", issuer |-> "", key |-> "", baseUrl |-> b] :
        b \in bases }

\* status codes given in the options (0: not given)
LegacyStatusProfiles ==
    { [unauthorized |-> 0,   serverError |-> 0],
      [unauthorized |-> 403, serverError |-> 503] }

\* The IAuthAudienceOptions a caller passes to the middleware: audience,
\* issuer and key as in the tests, the authScheme from `schemes`, the
\* excludedRoutes from `routes`, the status codes from `statuses`, and
\* nextOnError and each hook / builder given or not as `flags` allows.
LegacyRawOptions(schemes, routes, statuses, flags) ==
    { [ audience |-> "testAudience", issuer |-> "testIssuer", key |-> "1234",
        authScheme |-> sch,
        excludedRoutes |-> r,
        nextOnError |-> noe,
        unauthorizedStatusCode |-> st.unauthorized,
        serverErrorStatusCode |-> st.serverError,
        onAuthorized |-> oa,
        onVerifyError |-> ove,
        jsonBuilders |-> jb ] :
        sch \in schemes, r \in routes, noe \in flags, st \in statuses,
        oa \in flags, ove \in flags, jb \in flags }

\* The options object at the end of the middleware's addAuthAudience.
\* onVerifyError has no default: it stays undefined ("absent") unless given.
LegacyAddAuthAudience(sapi, opt) ==
    LET audience == OrStr(opt.audience, sapi.audience)
        issuer   == OrStr(opt.issuer, sapi.issuer)
    IN  [ audience   |-> audience,
          authScheme |-> IF opt.authScheme.defined /\ opt.authScheme.value = <<>>
                            THEN <<>>
                            ELSE IF opt.authScheme.defined
                                    THEN opt.authScheme.value
                                    ELSE <<"Bearer">>,
          issuer     |-> issuer,
          jwtVerifyOptions |-> [audience |-> audience, issuer |-> issuer],
          key        |-> OrStr(opt.key, sapi.key),
          excludedRoutes |-> opt.excludedRoutes,
          nextOnError    |-> opt.nextOnError,
          onAuthorized  |-> IF opt.onAuthorized THEN "custom" ELSE "default",
          onVerifyError |-> IF opt.onVerifyError THEN "custom" ELSE "absent",
          serverErrorStatusCode  |-> OrNum(opt.serverErrorStatusCode,
                                           DefaultServerErrorStatusCode),
          serverErrorJson        |-> IF opt.jsonBuilders THEN "custom"
                                                         ELSE "default",
          unauthorizedStatusCode |-> OrNum(opt.unauthorizedStatusCode,
                                           DefaultUnauthorizedStatusCode),
          unauthorizedJson       |-> IF opt.jsonBuilders THEN "custom"
                                                         ELSE "default" ]

-----------------------------------------------------------------------------
(* The middleware: jwtAudienceHandler(req, res, next)                       *)

\* the signed tokens presented to the middleware
LegacyJwtIds == {"jwtFlat", "jwtFlatExpired"}

\* values of the credential header of a request to the middleware
LegacyAuthHeaders ==
    { h \in AuthHeaders :
        \A i \in DOMAIN h.value :
            h.value[i] \in JwtIds => h.value[i] \in LegacyJwtIds }

\* the targets of the requests to the middleware: URL and method
LegacyTargets ==
    { [originalUrl |-> <<"/">>,                method |-> "GET"],
      [originalUrl |-> <<"/", "test2">>,       method |-> "GET"],
      [originalUrl |-> <<"/", "test2">>,       method |-> "POST"] }

NoRequest ==
    [originalUrl |-> <<>>, method |-> "",
     authHeader |-> [present |-> FALSE, value |-> <<>>]]

\* NextOnError calling next whatever options.nextOnError says
NextAlways(opts, arg) == <<arg>>

\* if (options.nextOnError) { next(arg); }
NextOnError(opts, arg) == IF opts.nextOnError THEN <<arg>> ELSE <<>>

\* ThenNext calling next() however the promise settled
ThenNextAlways(rejected) == <<"none">>

\* promise.then(() => next()): next() is called, without an argument, only
\* when the promise of the hook resolved
ThenNext(rejected) == IF rejected THEN <<>> ELSE <<"none">>

\* (err && reqAuth) ? reject(err) : resolve(payload)
RejectsVerify(verifyFailed, ra) == verifyFailed /\ ra

\* HasOnVerifyError never finding the hook
HasOnVerifyErrorNever(opts) == FALSE

\* if (options.onVerifyError)
HasOnVerifyError(opts) == opts.onVerifyError # "absent"

\* LegacyOnAuthorizedStores with a default hook that forgets the payload
LegacyOnAuthorizedStoresNothing(hook, p, locals) == locals

\* res.locals.jwt once options.onAuthorized(payload, req, res) has been
\* called: the default hook stores the payload (undefined included) there.
LegacyOnAuthorizedStores(hook, p, locals) ==
    IF hook = "default" THEN p ELSE locals

\* The middleware from the split of the header to the extraction of the
\* token: whether sendUnauthorized is called, and the token otherwise
\* (<<>> is an undefined or empty token).
LegacyParseHeader(h, authScheme, ra) ==
    LET authHeaderParts == IF Falsy(h) THEN <<>> ELSE Split(h.value)
        unauthorized == [unauthorized |-> TRUE, token |-> <<>>]
        tokenIs(t) == [unauthorized |-> FALSE, token |-> t]
    IN  IF Falsy(h) /\ ra
           THEN unauthorized
        ELSE IF authScheme = <<>> \/ Len(authHeaderParts) = 1
           THEN IF h.present /\ h.value = authScheme /\ ra
                   THEN unauthorized
                   ELSE tokenIs(h.value)
        ELSE IF Len(authHeaderParts) = 2
           THEN IF ToLowerCase(authHeaderParts[1]) # ToLowerCase(authScheme)
                   /\ ra
                   THEN unauthorized
                   ELSE tokenIs(authHeaderParts[2])
        ELSE IF ra THEN unauthorized ELSE tokenIs(<<>>)

\* A request reaches the middleware, which runs up to the first promise it
\* waits on: options.unauthorizedJson (sendUnauthorized) or verify.
LegacyHandleRequest ==
    /\ legacyPc = "idle"
    /\ \E t \in LegacyTargets, h \in LegacyAuthHeaders :
        LET r      == [originalUrl |-> t.originalUrl, method |-> t.method,
                       authHeader |-> h]
            ra     == ~IsExcludedRoute(legacyOptions, baseUrlOffset, r)
            parsed == LegacyParseHeader(h, legacyOptions.authScheme, ra)
        IN  /\ req' = r
            /\ reqAuth' = ra
            /\ legacyToken' = parsed.token
            /\ IF parsed.unauthorized
                  THEN /\ legacyPc' = "awaitUnauthorizedJson"
                       /\ legacyVerifyCall' = NoVerifyCall
                  ELSE /\ legacyPc' = "awaitVerify"
                       /\ legacyVerifyCall' =
                             [called |-> TRUE, token |-> parsed.token,
                              key |-> legacyOptions.key,
                              audience |->
                                  legacyOptions.jwtVerifyOptions.audience,
                              issuer |->
                                  legacyOptions.jwtVerifyOptions.issuer]
    /\ UNCHANGED <<legacyOptions, sapiBaseUrl, baseUrlOffset, legacyPayload,
                   legacyOnAuthorizedCalled, legacyLocalsJwt,
                   legacySettlements, resSent, nextCalls>>
    /\ UNCHANGED chainVars
    /\ UNCHANGED handlerVars

\* verify() calls back.  With an error on a route that requires
\* authentication the promise rejects and the outer catch runs:
\* options.onVerifyError if there is one, sendUnauthorized otherwise.  In
\* every other case the promise resolves with the payload (undefined after an
\* error) and options.onAuthorized is called with it.
LegacyVerifySettles ==
    /\ legacyPc = "awaitVerify"
    /\ LET v == Verify(legacyVerifyCall.token, legacyVerifyCall.key,
                       [audience |-> legacyVerifyCall.audience,
                        issuer |-> legacyVerifyCall.issuer])
       IN  IF RejectsVerify(~v.ok, reqAuth)
              THEN /\ legacyPc' = IF HasOnVerifyError(legacyOptions)
                                     THEN "awaitOnVerifyError"
                                     ELSE "awaitUnauthorizedJson"
                   /\ UNCHANGED <<legacyPayload, legacyOnAuthorizedCalled,
                                  legacyLocalsJwt>>
              ELSE /\ legacyPc' = "awaitOnAuthorized"
                   /\ legacyPayload' = v.payload
                   /\ legacyOnAuthorizedCalled' = TRUE
                   /\ legacyLocalsJwt' =
                         LegacyOnAuthorizedStores(legacyOptions.onAuthorized,
                                                  v.payload, legacyLocalsJwt)
    /\ UNCHANGED <<legacyOptions, sapiBaseUrl, baseUrlOffset, req, reqAuth,
                   legacyToken,
                   legacyVerifyCall, legacySettlements, resSent, nextCalls>>
    /\ UNCHANGED chainVars
    /\ UNCHANGED handlerVars

\* options.onAuthorized(payload, req, res) settles: next() when it resolves,
\* options.serverErrorJson when it rejects.
LegacyOnAuthorizedSettles ==
    /\ legacyPc = "awaitOnAuthorized"
    /\ \E s \in Settlements(legacyOptions.onAuthorized) :
          /\ legacySettlements' = Append(legacySettlements,
                [hook |-> "onAuthorized", rejected |-> s.rejected])
          /\ legacyPc' = IF s.rejected THEN "awaitServerErrorJson"
                                        ELSE "done"
          /\ nextCalls' = nextCalls \o ThenNext(s.rejected)
    /\ UNCHANGED <<legacyOptions, sapiBaseUrl, baseUrlOffset, req, reqAuth,
                   legacyToken,
                   legacyVerifyCall, legacyPayload, legacyOnAuthorizedCalled,
                   legacyLocalsJwt, resSent>>
    /\ UNCHANGED chainVars
    /\ UNCHANGED handlerVars

\* options.serverErrorJson(err, req, res) called after onAuthorized rejected
\* settles: the server-error status is sent when it resolves; in both cases
\* next(...) is called if options.nextOnError is set.
LegacyServerErrorJsonSettles ==
    /\ legacyPc = "awaitServerErrorJson"
    /\ \E s \in Settlements(legacyOptions.serverErrorJson) :
          /\ legacySettlements' = Append(legacySettlements,
                [hook |-> "serverErrorJson", rejected |-> s.rejected])
          /\ IF s.rejected
             THEN /\ resSent' = resSent
                  /\ nextCalls' = nextCalls
                        \o NextOnError(legacyOptions, "unexpectedError")
             ELSE /\ resSent' = Append(resSent,
                        [status |-> legacyOptions.serverErrorStatusCode,
                         json |-> s.data])
                  /\ nextCalls' = nextCalls
                        \o NextOnError(legacyOptions, "errJson")
    /\ legacyPc' = "done"
    /\ UNCHANGED <<legacyOptions, sapiBaseUrl, baseUrlOffset, req, reqAuth,
                   legacyToken,
                   legacyVerifyCall, legacyPayload, legacyOnAuthorizedCalled,
                   legacyLocalsJwt>>
    /\ UNCHANGED chainVars
    /\ UNCHANGED handlerVars

\* options.onVerifyError(err, token, req, res) settles: next() when it
\* resolves, sendUnauthorized when it rejects.
LegacyOnVerifyErrorSettles ==
    /\ legacyPc = "awaitOnVerifyError"
    /\ \E s \in Settlements(legacyOptions.onVerifyError) :
          /\ legacySettlements' = Append(legacySettlements,
                [hook |-> "onVerifyError", rejected |-> s.rejected])
          /\ legacyPc' = IF s.rejected THEN "awaitUnauthorizedJson"
                                        ELSE "done"
          /\ nextCalls' = nextCalls \o ThenNext(s.rejected)
    /\ UNCHANGED <<legacyOptions, sapiBaseUrl, baseUrlOffset, req, reqAuth,
                   legacyToken,
                   legacyVerifyCall, legacyPayload, legacyOnAuthorizedCalled,
                   legacyLocalsJwt, resSent>>
    /\ UNCHANGED chainVars
    /\ UNCHANGED handlerVars

\* sendUnauthorized: options.unauthorizedJson(req, res) settles.  The
\* unauthorized status is sent when it resolves (and next() called if
\* options.nextOnError is set); options.serverErrorJson is called when it
\* rejects.
UnauthorizedJsonSettles ==
    /\ legacyPc = "awaitUnauthorizedJson"
    /\ \E s \in Settlements(legacyOptions.unauthorizedJson) :
          /\ legacySettlements' = Append(legacySettlements,
                [hook |-> "unauthorizedJson", rejected |-> s.rejected])
          /\ IF s.rejected
             THEN /\ legacyPc' = "awaitSendUnauthorizedServerErrorJson"
                  /\ resSent' = resSent
                  /\ nextCalls' = nextCalls
             ELSE /\ legacyPc' = "done"
                  /\ resSent' = Append(resSent,
                        [status |-> legacyOptions.unauthorizedStatusCode,
                         json |-> s.data])
                  /\ nextCalls' = nextCalls
                        \o NextOnError(legacyOptions, "none")
    /\ UNCHANGED <<legacyOptions, sapiBaseUrl, baseUrlOffset, req, reqAuth,
                   legacyToken,
                   legacyVerifyCall, legacyPayload, legacyOnAuthorizedCalled,
                   legacyLocalsJwt>>
    /\ UNCHANGED chainVars
    /\ UNCHANGED handlerVars

\* sendUnauthorized: options.serverErrorJson(err, req, res) called after
\* unauthorizedJson rejected settles.  The server-error status is sent when
\* it resolves; nothing handles a rejection, and nothing is sent.
SendUnauthorizedServerErrorJsonSettles ==
    /\ legacyPc = "awaitSendUnauthorizedServerErrorJson"
    /\ \E s \in Settlements(legacyOptions.serverErrorJson) :
          /\ legacySettlements' = Append(legacySettlements,
                [hook |-> "serverErrorJson", rejected |-> s.rejected])
          /\ IF s.rejected
             THEN /\ resSent' = resSent
                  /\ nextCalls' = nextCalls
             ELSE /\ resSent' = Append(resSent,
                        [status |-> legacyOptions.serverErrorStatusCode,
                         json |-> s.data])
                  /\ nextCalls' = nextCalls
                        \o NextOnError(legacyOptions, "errJson")
    /\ legacyPc' = "done"
    /\ UNCHANGED <<legacyOptions, sapiBaseUrl, baseUrlOffset, req, reqAuth,
                   legacyToken,
                   legacyVerifyCall, legacyPayload, legacyOnAuthorizedCalled,
                   legacyLocalsJwt>>
    /\ UNCHANGED chainVars
    /\ UNCHANGED handlerVars

\* no request is being handled by the middleware
LegacyIdle ==
    /\ req = NoRequest
    /\ reqAuth = TRUE
    /\ legacyPc = "idle"
    /\ legacyToken = <<>>
    /\ legacyVerifyCall = NoVerifyCall
    /\ legacyPayload = NoPayload
    /\ legacyOnAuthorizedCalled = FALSE
    /\ legacyLocalsJwt = NoPayload
    /\ legacySettlements = <<>>
    /\ resSent = <<>>
    /\ nextCalls = <<>>

\* The request is over (answered, or handed to the rest of the pipeline); req
\* and res are dropped.  Only what addAuthAudience set up outlives it.
LegacyRequestEnds ==
    /\ legacyPc = "done"
    /\ req' = NoRequest
    /\ reqAuth' = TRUE
    /\ legacyPc' = "idle"
    /\ legacyToken' = <<>>
    /\ legacyVerifyCall' = NoVerifyCall
    /\ legacyPayload' = NoPayload
    /\ legacyOnAuthorizedCalled' = FALSE
    /\ legacyLocalsJwt' = NoPayload
    /\ legacySettlements' = <<>>
    /\ resSent' = <<>>
    /\ nextCalls' = <<>>
    /\ UNCHANGED <<legacyOptions, sapiBaseUrl, baseUrlOffset>>
    /\ UNCHANGED chainVars
    /\ UNCHANGED handlerVars

\* isExcludedRoute(options, baseUrlOffset, req, res) is called for a request
\* and returns (the middleware's `const reqAuth = !isExcludedRoute(...)`).
IsExcludedRouteReturns ==
    /\ legacyPc = "idle"
    /\ \E u \in OriginalUrls, m \in Methods :
        LET r == [originalUrl |-> u, method |-> m,
                  authHeader |-> [present |-> FALSE, value |-> <<>>]]
        IN  /\ req' = r
            /\ reqAuth' = ~IsExcludedRoute(legacyOptions, baseUrlOffset, r)
    /\ legacyPc' = "excludedRouteChecked"
    /\ UNCHANGED <<legacyOptions, sapiBaseUrl, baseUrlOffset, legacyToken,
                   legacyVerifyCall, legacyPayload, legacyOnAuthorizedCalled,
                   legacyLocalsJwt, legacySettlements, resSent, nextCalls>>
    /\ UNCHANGED chainVars
    /\ UNCHANGED handlerVars

\* the next request is awaited
ExclusionCheckEnds ==
    /\ legacyPc = "excludedRouteChecked"
    /\ req' = NoRequest
    /\ reqAuth' = TRUE
    /\ legacyPc' = "idle"
    /\ UNCHANGED <<legacyOptions, sapiBaseUrl, baseUrlOffset, legacyToken,
                   legacyVerifyCall, legacyPayload, legacyOnAuthorizedCalled,
                   legacyLocalsJwt, legacySettlements, resSent, nextCalls>>
    /\ UNCHANGED chainVars
    /\ UNCHANGED handlerVars

-----------------------------------------------------------------------------
(* Specifications                                                           *)

ChainIdle ==
    /\ chainPc = "idle"
    /\ idx = 0
    /\ firstFailure = UndefinedResult
    /\ started = {}
    /\ completed = {}
    /\ chainResult = UndefinedResult

\* Each specification exercises one part of the package; the variables of
\* the other parts keep the values given here.
ChainUnused ==
    /\ authenticators = <<"success">>
    /\ ChainIdle

HandlerUnused ==
    /\ options = AddAuthAudience(CHOOSE f \in FlatConfigs : f.key = "",
                                 CHOOSE o \in RawOptions : TRUE)
    /\ HandlerIdle

LegacyUnused ==
    /\ legacyOptions =
          LegacyAddAuthAudience(
              CHOOSE sapi \in LegacySapis({<<>>}) : TRUE,
              CHOOSE o \in LegacyRawOptions(
                              {[defined |-> FALSE, value |-> <<>>]},
                              {[defined |-> FALSE, rules |-> <<>>]},
                              {[unauthorized |-> 0, serverError |-> 0]},
                              {FALSE}) : TRUE)
    /\ sapiBaseUrl = <<>>
    /\ baseUrlOffset = 0
    /\ LegacyIdle

\* new AuthAudience(authenticators), any list of handlers
ChainInit ==
    /\ authenticators \in AuthenticatorLists
    /\ ChainIdle
    /\ HandlerUnused
    /\ LegacyUnused

ChainNext == Authenticate \/ HandlerResolves

ChainSpec == ChainInit /\ [][ChainNext]_vars

\* addAuthAudience(sapi, options) has returned; no request handled yet.
Init ==
    /\ \E sapi \in SapiConfigs, opt \in RawOptions :
          options = AddAuthAudience(sapi, opt)
    /\ HandlerIdle
    /\ ChainUnused
    /\ LegacyUnused

Next ==
    \/ HandleRequest
    \/ NoHeaderHookSettles
    \/ BadRequestJsonSettles
    \/ ServerErrorJsonSettles
    \/ VerifySettles
    \/ OnAuthorizedSettles
    \/ OnVerifyErrorSettles
    \/ RequestEnds

Spec == Init /\ [][Next]_vars

\* excludedRoutes of the middleware under LegacySpec: none, or the list of
\* the tests
LegacyRoutes ==
    { [defined |-> FALSE, rules |-> <<>>],
      [defined |-> TRUE,  rules |-> TestExcludedRoutes] }

\* The middleware's addAuthAudience(sapi, options) has returned (no base
\* URL); no request handled yet.
LegacyInit ==
    /\ \E sapi \in LegacySapis({<<>>}),
          opt \in LegacyRawOptions(AuthSchemes, LegacyRoutes,
                                   LegacyStatusProfiles, BOOLEAN) :
          /\ legacyOptions = LegacyAddAuthAudience(sapi, opt)
          /\ sapiBaseUrl = sapi.baseUrl
          /\ baseUrlOffset = BaseUrlOffset(sapi)
    /\ LegacyIdle
    /\ ChainUnused
    /\ HandlerUnused

LegacyNext ==
    \/ LegacyHandleRequest
    \/ LegacyVerifySettles
    \/ LegacyOnAuthorizedSettles
    \/ LegacyServerErrorJsonSettles
    \/ LegacyOnVerifyErrorSettles
    \/ UnauthorizedJsonSettles
    \/ SendUnauthorizedServerErrorJsonSettles
    \/ LegacyRequestEnds

LegacySpec == LegacyInit /\ [][LegacyNext]_vars

\* The middleware's addAuthAudience has returned, for any list of exclusion
\* rules and with or without a base URL (hooks and flags left out: they play
\* no part in isExcludedRoute).
ExclusionInit ==
    /\ \E sapi \in LegacySapis(BaseUrls),
          opt \in LegacyRawOptions({[defined |-> FALSE, value |-> <<>>]},
                                   ExcludedRoutesLists,
                                   {[unauthorized |-> 0, serverError |-> 0]},
                                   {FALSE}) :
          /\ legacyOptions = LegacyAddAuthAudience(sapi, opt)
          /\ sapiBaseUrl = sapi.baseUrl
          /\ baseUrlOffset = BaseUrlOffset(sapi)
    /\ LegacyIdle
    /\ ChainUnused
    /\ HandlerUnused

ExclusionNext == IsExcludedRouteReturns \/ ExclusionCheckEnds

ExclusionSpec == ExclusionInit /\ [][ExclusionNext]_vars

-----------------------------------------------------------------------------
(* Properties of AuthAudience.authenticate (checked under ChainSpec)       *)

AllFail ==
    /\ Len(authenticators) >= 1
    /\ \A i \in 1..Len(authenticators) :
          authenticators[i] \in {"failK1", "failK2"}

\* C1: when every handler of the list fails (any length >= 1), authenticate
\* returns the failure produced by the first handler of the list.
C1_ReturnsFirstFailure ==
    (chainPc = "returned" /\ AllFail)
        => chainResult = HandlerResult(1, authenticators[1])

\* position p holds a success and every handler before it fails
FirstSuccessAfterFailures(p) ==
    /\ p \in 1..Len(authenticators)
    /\ authenticators[p] = "success"
    /\ \A i \in 1..(p - 1) : authenticators[i] \in {"failK1", "failK2"}

\* C2: authenticate does not stop at a failure: when the list holds a success
\* preceded only by failures, every failing handler is followed by the next
\* one and the chain result is that success.
C2_FailuresFallThroughToSuccess ==
    \A p \in 1..Len(authenticators) :
        (chainPc = "returned" /\ FirstSuccessAfterFailures(p))
            => /\ 1..p \subseteq started
               /\ chainResult = HandlerResult(p, "success")

\* C3: handlers are invoked one at a time in list order (a handler is invoked
\* only when every handler before it has resolved), and once a handler has
\* resolved to a success no later handler is invoked and that success is what
\* authenticate returns.
C3_SequentialAndShortCircuit ==
    /\ Cardinality(started \ completed) <= 1
    /\ \A j \in started : \A i \in 1..(j - 1) : i \in completed
    /\ \A i \in completed :
          authenticators[i] = "success"
              => /\ \A j \in started : j <= i
                 /\ chainPc = "returned"
                 /\ chainResult = HandlerResult(i, "success")

\* a success at position 2 was returned while a third handler was never run
C3_Witness ==
    /\ chainPc = "returned"
    /\ Len(authenticators) = 3
    /\ chainResult.success
    /\ chainResult.by = 2
    /\ started = {1, 2}
    /\ completed = {1, 2}

-----------------------------------------------------------------------------
(* Properties of jwtAudienceHandler (checked under Spec)                    *)

\* a request is being handled or has just been answered
InRequest == pc # "idle"

Answered == pc = "done"

\* the i-th awaited hook / builder of this request was `hook` and it
\* resolved (rejected = FALSE) or rejected (rejected = TRUE)
Settled(i, hook, rejected) ==
    /\ Len(settlements) >= i
    /\ settlements[i] = [hook |-> hook, rejected |-> rejected]

\* the handler's promise resolved to a failure with this error and status
FailedWith(error, status) ==
    /\ result.settled
    /\ ~result.rejected
    /\ ~result.success
    /\ result.error = error
    /\ result.status = status

\* the handler's promise resolved to a failure with this status
FailedWithStatus(status) ==
    /\ result.settled
    /\ ~result.rejected
    /\ ~result.success
    /\ result.status = status

\* what verify() answers to the call made for this request
VerifyOutcome ==
    Verify(verifyCall.token, verifyCall.key,
           [audience |-> verifyCall.audience, issuer |-> verifyCall.issuer])

\* number of spaces of the credential header: it has one part more
HeaderSpaces ==
    Cardinality({i \in DOMAIN authHeader.value : authHeader.value[i] = SP})

----
\* C4 (as claimed): every request without the credential header yields a
\* NO_AUTHORIZATION_HEADER failure whose status is the configured
\* unauthorized status, and neither verify nor onAuthorized is invoked.
C4_NoHeaderAlwaysUnauthorized ==
    (InRequest /\ ~authHeader.present)
        => /\ ~verifyCall.called
           /\ ~onAuthorizedCalled
           /\ Answered => FailedWith("NO_AUTHORIZATION_HEADER",
                                     options.unauthorizedStatusCode)

\* C4 (amended): for a request without the credential header neither verify
\* nor onAuthorized is invoked; the outcome is the NO_AUTHORIZATION_HEADER
\* failure with the configured unauthorized status whenever onVerifyError
\* (which builds its body) resolves, as the default hook always does; when
\* that hook rejects, the outcome built by serverErrorJson carries the
\* configured server-error status.
C4_NoHeaderUnauthorizedIfHookResolves ==
    (InRequest /\ ~authHeader.present)
        => /\ ~verifyCall.called
           /\ ~onAuthorizedCalled
           /\ (Answered /\ Settled(1, "onVerifyError", FALSE))
                 => FailedWith("NO_AUTHORIZATION_HEADER",
                               options.unauthorizedStatusCode)
           /\ (Answered /\ options.onVerifyError = "default")
                 => Settled(1, "onVerifyError", FALSE)
           /\ (Answered /\ Settled(1, "onVerifyError", TRUE)
                        /\ Settled(2, "serverErrorJson", FALSE))
                 => FailedWithStatus(options.serverErrorStatusCode)

C4_Witness ==
    /\ Answered
    /\ ~authHeader.present
    /\ options.onVerifyError = "custom"
    /\ Settled(1, "onVerifyError", FALSE)
    /\ FailedWith("NO_AUTHORIZATION_HEADER", 403)

----
\* C5: whenever verify reports an error for the extracted token, the
\* handler's outcome is a failure with the configured unauthorized status,
\* onAuthorized is not invoked and no payload is attached to the request.
C5_VerifyErrorUnauthorized ==
    (verifyCall.called /\ ~VerifyOutcome.ok /\ pc # "awaitVerify")
        => /\ ~onAuthorizedCalled
           /\ resLocalsJwt = NoPayload
           /\ Answered => FailedWithStatus(options.unauthorizedStatusCode)

----
\* the header reads "<wrong-scheme> <token>": two non-empty parts, the first
\* differing case-insensitively from the configured scheme
WrongSchemeHeader ==
    /\ InRequest
    /\ authHeader.present
    /\ HeaderSpaces = 1
    /\ \E i \in 2..(Len(authHeader.value) - 1) :
          /\ authHeader.value[i] = SP
          /\ ToLowerCase(SubSeq(authHeader.value, 1, i - 1))
                # ToLowerCase(options.authScheme)

\* C6 (as claimed): for every configured scheme, the empty one included, a
\* header "<wrong-scheme> <token>" yields UNEXPECTED_AUTH_SCHEME with the
\* configured bad-request status and the token does not reach verify.
C6_WrongSchemeAnyScheme ==
    WrongSchemeHeader
        => /\ ~verifyCall.called
           /\ Answered => FailedWith("UNEXPECTED_AUTH_SCHEME",
                                     options.badRequestStatusCode)

\* C6 (amended): for every configured non-empty scheme, a header
\* "<wrong-scheme> <token>" never reaches verify; the outcome is
\* UNEXPECTED_AUTH_SCHEME with the configured bad-request status whenever
\* badRequestJson resolves, and carries the server-error status when
\* badRequestJson rejects and serverErrorJson resolves.
C6_WrongSchemeNonEmptyScheme ==
    (WrongSchemeHeader /\ options.authScheme # <<>>)
        => /\ ~verifyCall.called
           /\ (Answered /\ Settled(1, "badRequestJson", FALSE))
                 => FailedWith("UNEXPECTED_AUTH_SCHEME",
                               options.badRequestStatusCode)
           /\ (Answered /\ options.badRequestJson = "default")
                 => Settled(1, "badRequestJson", FALSE)
           /\ (Answered /\ Settled(1, "badRequestJson", TRUE)
                        /\ Settled(2, "serverErrorJson", FALSE))
                 => FailedWithStatus(options.serverErrorStatusCode)

C6_Witness ==
    /\ Answered
    /\ options.authScheme = <<"Bearer">>
    /\ authHeader.value = <<"JWT", SP, "jwtFlat">>
    /\ FailedWith("UNEXPECTED_AUTH_SCHEME", DefaultBadRequestStatusCode)

----
\* C7: when verify succeeds for the extracted token and the default
\* onAuthorized hook is in place, the outcome is a success and res.locals.jwt
\* holds exactly the payload verify returned (the claims of the token); with
\* a hook supplied by the caller the outcome is a success once it resolves.
C7_SuccessAttachesPayload ==
    (verifyCall.called /\ VerifyOutcome.ok /\ pc # "awaitVerify")
        => /\ onAuthorizedCalled
           /\ payload = VerifyOutcome.payload
           /\ payload = JwtClaims(verifyCall.token[1])
           /\ options.onAuthorized = "default"
                 => /\ resLocalsJwt = VerifyOutcome.payload
                    /\ Answered => (result = Success("null"))
           /\ (Answered /\ Settled(1, "onAuthorized", FALSE))
                 => (result.settled /\ ~result.rejected /\ result.success)

C7_Witness ==
    /\ Answered
    /\ options.onAuthorized = "default"
    /\ authHeader.value = <<"bearer", SP, "jwtFlat">>
    /\ result.success
    /\ resLocalsJwt = JwtClaims("jwtFlat")

----
\* C8: a single-part header (or any header when the scheme is empty) is
\* taken whole as the token and passed to verify, except that a header equal
\* to the configured non-empty scheme yields NO_AUTH_TOKEN with the
\* bad-request status.
C8_WholeHeaderIsToken ==
    (InRequest /\ ~Falsy(authHeader)
               /\ (options.authScheme = <<>> \/ HeaderSpaces = 0))
        => IF options.authScheme # <<>> /\ authHeader.value = options.authScheme
              THEN /\ ~verifyCall.called
                   /\ Answered => FailedWith("NO_AUTH_TOKEN",
                                             options.badRequestStatusCode)
              ELSE /\ token = authHeader.value
                   /\ verifyCall.called
                   /\ verifyCall.token = authHeader.value

----
\* C9 (as claimed): for every configured scheme, empty or not, a header of
\* three or more parts yields UNEXPECTED_AUTH_HEADER_CONTENT with the
\* bad-request status and verify is not invoked.
C9_ThreePartsAnyScheme ==
    (InRequest /\ authHeader.present /\ HeaderSpaces >= 2)
        => /\ ~verifyCall.called
           /\ Answered => FailedWith("UNEXPECTED_AUTH_HEADER_CONTENT",
                                     options.badRequestStatusCode)

\* C9 (amended): for every configured non-empty scheme, a header of three or
\* more parts never reaches verify; the outcome is
\* UNEXPECTED_AUTH_HEADER_CONTENT with the configured bad-request status
\* whenever badRequestJson resolves, and carries the server-error status when
\* badRequestJson rejects and serverErrorJson resolves.
C9_ThreePartsNonEmptyScheme ==
    (InRequest /\ authHeader.present /\ HeaderSpaces >= 2
               /\ options.authScheme # <<>>)
        => /\ ~verifyCall.called
           /\ (Answered /\ Settled(1, "badRequestJson", FALSE))
                 => FailedWith("UNEXPECTED_AUTH_HEADER_CONTENT",
                               options.badRequestStatusCode)
           /\ (Answered /\ options.badRequestJson = "default")
                 => Settled(1, "badRequestJson", FALSE)
           /\ (Answered /\ Settled(1, "badRequestJson", TRUE)
                        /\ Settled(2, "serverErrorJson", FALSE))
                 => FailedWithStatus(options.serverErrorStatusCode)

C9_Witness ==
    /\ Answered
    /\ options.authScheme = <<"Bearer">>
    /\ authHeader.value = <<"Bearer", SP, SP>>
    /\ FailedWith("UNEXPECTED_AUTH_HEADER_CONTENT", 422)

----
\* the extracted token carries a domain claim naming an entry of the table
TokenNamesDomain ==
    /\ InRequest
    /\ options.domainedAudiences.defined
    /\ IsJwt(token)
    /\ JwtClaims(token[1]).domain \in DOMAIN options.domainedAudiences.table

\* C10: with a domain table, a token whose domain claim names an entry is
\* verified with exactly that entry's key, audience and issuer; consequently
\* a token carrying domain d but signed with another key fails with the
\* unauthorized status.
C10_DomainEntryVerifies ==
    TokenNamesDomain
        => LET entry == options.domainedAudiences.table[
                            JwtClaims(token[1]).domain]
           IN  /\ verifyCall.called
               /\ verifyCall.token = token
               /\ verifyCall.key = entry.key
               /\ verifyCall.audience = entry.audience
               /\ verifyCall.issuer = entry.issuer
               /\ (Answered /\ JwtSigned(token[1]).key # entry.key)
                     => FailedWithStatus(options.unauthorizedStatusCode)

----
\* a domain table is configured and the extracted token is a JWT without a
\* domain claim
NoDomainToken ==
    /\ InRequest
    /\ options.domainedAudiences.defined
    /\ IsJwt(token)
    /\ JwtClaims(token[1]).domain = ""

\* C11: with a domain table, a token without a domain claim is verified with
\* the key, audience and issuer of the "default" entry, and the key and verify
\* options chosen for it are, before every request, those chosen for any token
\* that names the domain "default" explicitly.
C11_NoDomainIsDefault ==
    /\ (NoDomainToken /\ "default" \in DOMAIN options.domainedAudiences.table)
          => LET entry == options.domainedAudiences.table["default"]
             IN  /\ verifyCall.called
                 /\ verifyCall.token = token
                 /\ verifyCall.key = entry.key
                 /\ verifyCall.audience = entry.audience
                 /\ verifyCall.issuer = entry.issuer
                 /\ VerifyOutcome = Verify(token, entry.key,
                                           [audience |-> entry.audience,
                                            issuer |-> entry.issuer])
    /\ (pc = "idle" /\ options.domainedAudiences.defined)
          => \A t1 \in JwtIds, t2 \in JwtIds :
                (JwtClaims(t1).domain = "" /\ JwtClaims(t2).domain = "default")
                    => ResolveDomain(options, <<t1>>)
                          = ResolveDomain(options, <<t2>>)

\* a token signed for the default entry but carrying no domain claim was
\* verified with that entry and accepted
C11_Witness ==
    /\ Answered
    /\ options.domainedAudiences.defined
    /\ token = <<"jwtNoDomain">>
    /\ verifyCall.key = DomainTable["default"].key
    /\ verifyCall.audience = DomainTable["default"].audience
    /\ result.success

----
\* a domain table is configured and the domain the extracted token resolves
\* to (its claim, "default" without one) has no entry in the table
UnknownDomainToken ==
    /\ InRequest
    /\ options.domainedAudiences.defined
    /\ IsJwt(token)
    /\ LET claimed == JwtClaims(token[1]).domain
       IN  (IF claimed = "" THEN "default" ELSE claimed)
               \notin DOMAIN options.domainedAudiences.table

\* C12: with a domain table, whatever requests were handled before, a token
\* whose resolved domain has no entry is verified with the flat key, audience
\* and issuer fixed by addAuthAudience.
C12_UnknownDomainUsesFlat ==
    UnknownDomainToken
        => /\ verifyCall.called
           /\ verifyCall.key = options.key
           /\ verifyCall.audience = options.audience
           /\ verifyCall.issuer = options.issuer

----
\* C13: no step of the handling of a request changes the options object
\* (jwtVerifyOptions, key and domain table included): it stays as
\* addAuthAudience left it.
C13_OptionsNeverModified == [][options' = options]_vars

-----------------------------------------------------------------------------
(* Properties of isExcludedRoute (checked under ExclusionSpec)              *)

\* isExcludedRoute has returned for the request in req
ExclusionChecked == legacyPc = "excludedRouteChecked"

\* the value isExcludedRoute returned
Excluded == ~reqAuth

----
\* C14: isExcludedRoute returns true exactly when some rule of the list
\* matches the path and permits the method, where a bare pattern and a rule
\* without a method set permit every method and a rule with a method set
\* permits the methods in the set; with the one rule {POST, ^/test2$} a POST
\* to /test2 is excluded and a GET to /test2 is not.
C14_ExcludedIffRulePermits ==
    ExclusionChecked
        => LET path  == Substring(BeforeQuery(req.originalUrl), baseUrlOffset)
               rules == legacyOptions.excludedRoutes.rules
           IN  /\ Excluded <=>
                     /\ legacyOptions.excludedRoutes.defined
                     /\ \E i \in DOMAIN rules :
                           /\ RegexTest(rules[i].regex, path)
                           /\ \/ rules[i].bare
                              \/ ~rules[i].hasMethod
                              \/ req.method \in rules[i].method
               /\ ( /\ legacyOptions.excludedRoutes.defined
                    /\ rules = << TestExcludedRoutes[3] >>
                    /\ baseUrlOffset = 0
                    /\ req.originalUrl = <<"/", "test2">> )
                     => (Excluded <=> req.method = "POST")

\* GET /test2 was checked against the rules [ {GET, ^/test1}, {POST,
\* ^/test2$} ] and found to require authentication
C14_Witness ==
    /\ ExclusionChecked
    /\ legacyOptions.excludedRoutes.defined
    /\ Len(legacyOptions.excludedRoutes.rules) = 2
    /\ legacyOptions.excludedRoutes.rules[2] = TestExcludedRoutes[3]
    /\ legacyOptions.excludedRoutes.rules[1].method = {"GET"}
    /\ req.originalUrl = <<"/", "test2">>
    /\ req.method = "GET"
    /\ baseUrlOffset = 0
    /\ ~Excluded

----
\* the request URL has a query string
HasQuery == \E i \in DOMAIN req.originalUrl : req.originalUrl[i] = "?"

\* the request URL up to its first "?"
PathOfUrl ==
    LET u == req.originalUrl
        q == CHOOSE i \in DOMAIN u :
                 u[i] = "?" /\ \A j \in 1..(i - 1) : u[j] # "?"
    IN  SubSeq(u, 1, q - 1)

\* C15: a request to p?q is excluded if and only if a request to p (same
\* method, same configuration) is excluded.
C15_QueryIgnored ==
    (ExclusionChecked /\ HasQuery)
        => (Excluded <=>
               IsExcludedRoute(legacyOptions, baseUrlOffset,
                               [req EXCEPT !.originalUrl = PathOfUrl]))

\* GET /?q was found excluded by the rule ^/$
C15_Witness ==
    /\ ExclusionChecked
    /\ req.originalUrl = <<"/", "?", "q">>
    /\ legacyOptions.excludedRoutes.defined
    /\ legacyOptions.excludedRoutes.rules = << TestExcludedRoutes[1] >>
    /\ baseUrlOffset = 0
    /\ Excluded

----
\* the request URL begins with the configured base URL
UnderBaseUrl ==
    /\ sapiBaseUrl # <<>>
    /\ Len(req.originalUrl) >= Len(sapiBaseUrl)
    /\ SubSeq(req.originalUrl, 1, Len(sapiBaseUrl)) = sapiBaseUrl

-----------------------------------------------------------------------------
(* Properties of the middleware (checked under LegacySpec)                  *)

\* a request is being handled by the middleware or has just been dealt with
LegacyInRequest == legacyPc # "idle"

\* nothing is left to run for the request
LegacyAnswered == legacyPc = "done"

\* the i-th hook / builder waited on for this request was `hook` and it
\* resolved (rejected = FALSE) or rejected (rejected = TRUE)
LegacySettled(i, hook, rejected) ==
    /\ Len(legacySettlements) >= i
    /\ legacySettlements[i] = [hook |-> hook, rejected |-> rejected]

\* the last hook / builder waited on was `hook`, settled as said
LegacySettledLast(hook, rejected) ==
    LegacySettled(Len(legacySettlements), hook, rejected)

\* what verify() answers to the call made for this request
LegacyVerifyOutcome ==
    Verify(legacyVerifyCall.token, legacyVerifyCall.key,
           [audience |-> legacyVerifyCall.audience,
            issuer |-> legacyVerifyCall.issuer])

\* verify() has called back with an error
LegacyVerifyFailed ==
    /\ legacyVerifyCall.called
    /\ legacyPc # "awaitVerify"
    /\ ~LegacyVerifyOutcome.ok

\* verify() has called back with a payload
LegacyVerifySucceeded ==
    /\ legacyVerifyCall.called
    /\ legacyPc # "awaitVerify"
    /\ LegacyVerifyOutcome.ok

\* number of spaces of the credential header: it has one part more
LegacyHeaderSpaces ==
    Cardinality({i \in DOMAIN req.authHeader.value :
                    req.authHeader.value[i] = SP})

\* the statuses sent with res.status(...).json(...)
StatusesSent == { resSent[i].status : i \in DOMAIN resSent }

----
\* the credential cases of C17: no header, the bare scheme, two parts with
\* another scheme, three or more parts, or a token verify rejected
RejectedCredential ==
    \/ ~req.authHeader.present
    \/ req.authHeader.value = legacyOptions.authScheme
    \/ /\ LegacyHeaderSpaces = 1
       /\ \E i \in 2..(Len(req.authHeader.value) - 1) :
             /\ req.authHeader.value[i] = SP
             /\ ToLowerCase(SubSeq(req.authHeader.value, 1, i - 1))
                   # ToLowerCase(legacyOptions.authScheme)
    \/ LegacyHeaderSpaces >= 2
    \/ LegacyVerifyFailed

\* C17: with nextOnError unset and no onVerifyError hook, a request to a
\* route that is not excluded whose credential is missing, malformed or
\* rejected by verify never reaches next() nor onAuthorized; what is sent is
\* the configured unauthorized status (and nothing else) whenever
\* unauthorizedJson resolves, which the default builder always does.
C17_UnauthorizedAndTerminal ==
    ( /\ LegacyInRequest
      /\ reqAuth
      /\ ~legacyOptions.nextOnError
      /\ legacyOptions.onVerifyError = "absent"
      /\ RejectedCredential )
        => /\ nextCalls = <<>>
           /\ ~legacyOnAuthorizedCalled
           /\ legacyLocalsJwt = NoPayload
           /\ (LegacyAnswered /\ legacyOptions.unauthorizedJson = "default")
                 => resSent =
                       << [status |-> legacyOptions.unauthorizedStatusCode,
                           json |-> "null"] >>
           /\ (LegacyAnswered /\ LegacySettled(1, "unauthorizedJson", FALSE))
                 => /\ Len(resSent) = 1
                    /\ resSent[1].status
                          = legacyOptions.unauthorizedStatusCode

\* an expired token on a route that requires authentication was answered
\* with 401 and next() was not called
C17_Witness ==
    /\ LegacyAnswered
    /\ reqAuth
    /\ ~legacyOptions.nextOnError
    /\ legacyOptions.onVerifyError = "absent"
    /\ req.authHeader.value = <<"Bearer", SP, "jwtFlatExpired">>
    /\ LegacyVerifyFailed
    /\ resSent = << [status |-> DefaultUnauthorizedStatusCode,
                     json |-> "null"] >>
    /\ nextCalls = <<>>

----
\* C18: on an excluded route the token is still processed: verify is called
\* for every request, and when it accepts the credential onAuthorized is
\* invoked with the verified payload (the default hook stores it in
\* res.locals.jwt) before any call of next(); with the default hook next() is
\* then called once and nothing is sent.
C18_ExcludedStillAttaches ==
    /\ (LegacyInRequest /\ ~reqAuth) => legacyVerifyCall.called
    /\ (LegacyInRequest /\ ~reqAuth /\ LegacyVerifySucceeded)
          => /\ legacyOnAuthorizedCalled
             /\ legacyPayload = LegacyVerifyOutcome.payload
             /\ legacyPayload = JwtClaims(legacyVerifyCall.token[1])
             /\ nextCalls # <<>> => Len(legacySettlements) >= 1
                                    /\ legacySettlements[1].hook
                                          = "onAuthorized"
             /\ legacyOptions.onAuthorized = "default"
                   => /\ legacyLocalsJwt = LegacyVerifyOutcome.payload
                      /\ LegacyAnswered => /\ nextCalls = <<"none">>
                                           /\ resSent = <<>>

\* POST /test2 (excluded) with a valid token as the whole header: the payload
\* was stored and next() called
C18_Witness ==
    /\ LegacyAnswered
    /\ ~reqAuth
    /\ req.originalUrl = <<"/", "test2">>
    /\ req.method = "POST"
    /\ req.authHeader.value = <<"jwtFlat">>
    /\ legacyOptions.onAuthorized = "default"
    /\ legacyLocalsJwt = JwtClaims("jwtFlat")
    /\ nextCalls = <<"none">>

----
\* C19: a request to an excluded route whose credential is absent or is
\* rejected by verify is never answered with a failure status, ends with
\* exactly one call of next(), and leaves no payload in res.locals.jwt.
C19_ExcludedNeverRejected ==
    ( /\ LegacyInRequest
      /\ ~reqAuth
      /\ (Falsy(req.authHeader) \/ LegacyVerifyFailed) )
        => /\ resSent = <<>>
           /\ legacyLocalsJwt = NoPayload
           /\ Len(nextCalls) <= 1
           /\ LegacyAnswered => Len(nextCalls) = 1

----
\* verify rejected the credential on a route that requires authentication,
\* so that the outer catch of the middleware ran
VerificationFailedRequired == LegacyInRequest /\ reqAuth /\ LegacyVerifyFailed

\* C20 (as claimed): when verification fails on a route that requires
\* authentication, an onVerifyError hook that resolves leads to next() and no
\* status; otherwise (no hook, or the hook rejects) the unauthorized status
\* is sent.
C20_HookOrUnauthorized ==
    (VerificationFailedRequired /\ LegacyAnswered)
        => IF LegacySettled(1, "onVerifyError", FALSE)
              THEN /\ nextCalls = <<"none">>
                   /\ resSent = <<>>
              ELSE /\ Len(resSent) = 1
                   /\ resSent[1].status = legacyOptions.unauthorizedStatusCode

\* C20 (amended): when verification fails on a route that requires
\* authentication, a configured onVerifyError hook is consulted first; if it
\* resolves next() is called and nothing is sent; if it rejects or there is
\* no hook, sendUnauthorized runs: the unauthorized status and the body built
\* by unauthorizedJson are sent whenever that builder resolves (the default
\* one always does), and when it rejects the unauthorized status is not sent
\* and the only status that can be sent is the server-error one.
C20_HookThenSendUnauthorized ==
    VerificationFailedRequired
        => /\ (legacyOptions.onVerifyError # "absent"
                  /\ legacyPc # "awaitOnVerifyError")
                 => \E r \in BOOLEAN : LegacySettled(1, "onVerifyError", r)
           /\ legacyOptions.onVerifyError = "absent"
                 => \A i \in DOMAIN legacySettlements :
                        legacySettlements[i].hook # "onVerifyError"
           /\ (LegacyAnswered /\ LegacySettled(1, "onVerifyError", FALSE))
                 => /\ nextCalls = <<"none">>
                    /\ resSent = <<>>
           /\ (LegacyAnswered /\ ~LegacySettled(1, "onVerifyError", FALSE))
                 => /\ LegacySettledLast("unauthorizedJson", FALSE)
                       => /\ Len(resSent) = 1
                          /\ resSent[1].status
                                = legacyOptions.unauthorizedStatusCode
                    /\ legacyOptions.unauthorizedJson = "default"
                       => LegacySettledLast("unauthorizedJson", FALSE)
                    /\ ~LegacySettledLast("unauthorizedJson", FALSE)
                       => StatusesSent
                             \subseteq {legacyOptions.serverErrorStatusCode}

\* the hook rejected, sendUnauthorized ran and the configured unauthorized
\* status went out with the body built by unauthorizedJson
C20_Witness ==
    /\ LegacyAnswered
    /\ VerificationFailedRequired
    /\ LegacySettled(1, "onVerifyError", TRUE)
    /\ LegacySettled(2, "unauthorizedJson", FALSE)
    /\ resSent = << [status |-> 403, json |-> "json"] >>
    /\ nextCalls = <<>>

----
\* C21: once a failure status (unauthorized or server error) has been sent
\* and nothing is left to run, next was called exactly once with the error
\* as its argument if options.nextOnError is set, and was not called at all
\* if it is not set.
C21_FailureThenErrorForwarded ==
    (LegacyAnswered /\ resSent # <<>>)
        => IF legacyOptions.nextOnError
              THEN /\ Len(nextCalls) = 1
                   /\ nextCalls[1] # "none"
              ELSE nextCalls = <<>>

----
\* C22: whatever the request, the configuration and the way verify, the
\* hooks and the body builders settle, next is called at most once for a
\* request.
C22_NextAtMostOnce == Len(nextCalls) <= 1

\* onVerifyError and unauthorizedJson both rejected, serverErrorJson
\* resolved and, nextOnError being set, next was called once, with the error
C22_Witness ==
    /\ LegacyAnswered
    /\ legacyOptions.nextOnError
    /\ LegacySettled(1, "onVerifyError", TRUE)
    /\ LegacySettled(2, "unauthorizedJson", TRUE)
    /\ LegacySettled(3, "serverErrorJson", FALSE)
    /\ Len(resSent) = 1
    /\ nextCalls = <<"errJson">>

-----------------------------------------------------------------------------
(* Further properties of jwtAudienceHandler (checked under Spec)            *)

\* C23: the body of every failure outcome that carries the configured
\* unauthorized status was produced by options.unauthorizedJson, whatever the
\* other builders and hooks do; in particular the outcome has no body when
\* that builder is the default one, which resolves to null.
C23_UnauthorizedBodyFromBuilder ==
    (Answered /\ FailedWithStatus(options.unauthorizedStatusCode))
        => /\ \E i \in DOMAIN settlements :
                 settlements[i] = [hook |-> "unauthorizedJson",
                                   rejected |-> FALSE]
           /\ options.unauthorizedJson = "default" => result.data = "null"

----
----
\* C25: an unexpected exception is reported with the configured server-error
\* status: when verify accepted the token and onAuthorized rejected, and
\* when badRequestJson rejected, the outcome the handler's promise resolves
\* to is a failure whose status is options.serverErrorStatusCode.  (Whether
\* the promise resolves at all is the subject of C26.)
C25_UnexpectedErrorIsServerError ==
    (Answered /\ ~result.rejected)
        => /\ (\E i \in DOMAIN settlements :
                   Settled(i, "onAuthorized", TRUE))
                 => FailedWithStatus(options.serverErrorStatusCode)
           /\ (\E i \in DOMAIN settlements :
                   Settled(i, "badRequestJson", TRUE))
                 => FailedWithStatus(options.serverErrorStatusCode)

----
\* C26: jwtAudienceHandler never throws past its boundary: however verify,
\* decode, the hooks and the body builders behave, once nothing is left to
\* run the returned promise has resolved, to an outcome with a success flag
\* and a status, and has not rejected.
C26_NeverRejects ==
    Answered
        => /\ result.settled
           /\ ~result.rejected
           /\ IF result.success
                 THEN result.status = SuccessStatus
                 ELSE result.status \in {options.unauthorizedStatusCode,
                                         options.badRequestStatusCode,
                                         options.serverErrorStatusCode}

----
\* C27: with a domain table configured, every token extracted from the
\* header, one that cannot be decoded included, is handed to verify, and a
\* failure reported before onAuthorized is reached carries verify's error.
C27_DomainResolutionNeverFails ==
    ( /\ InRequest
      /\ options.domainedAudiences.defined
      /\ ParseHeader(authHeader, options.authScheme).kind = "token" )
        => /\ verifyCall.called
           /\ verifyCall.token = token
           /\ (Answered /\ ~result.rejected /\ ~result.success
                        /\ ~onAuthorizedCalled)
                 => result.error = VerifyOutcome.error

-----------------------------------------------------------------------------
(* Further properties of the middleware (checked under LegacySpec)          *)

\* C28: onAuthorized is invoked only with a payload verify returned without
\* an error: it is never invoked for a request whose credential is absent
\* or was rejected by verify, whether the route is excluded or not.
C28_OnAuthorizedOnlyOnSuccess ==
    /\ legacyOnAuthorizedCalled => LegacyVerifySucceeded
    /\ (LegacyInRequest /\ (Falsy(req.authHeader) \/ LegacyVerifyFailed))
          => ~legacyOnAuthorizedCalled

----
\* C29: every request terminates: once verify and every hook and body
\* builder called for the request have settled and nothing is left to run,
\* a status has been sent or next has been called.
C29_EveryRequestAnswered ==
    LegacyAnswered => (resSent # <<>> \/ nextCalls # <<>>)

-----------------------------------------------------------------------------
(* Further properties of isExcludedRoute (checked under ExclusionSpec)      *)

\* C30: the base URL is removed only as a prefix: with a base URL
\* configured, a request whose URL does not begin with it is never found
\* excluded (on the strength of what is left once as many characters as the
\* base URL has are cut from its start).
C30_BaseUrlStrippedAsPrefix ==
    (ExclusionChecked /\ sapiBaseUrl # <<>> /\ ~UnderBaseUrl) => ~Excluded

====
